---- MODULE Spec2Model ----
(***************************************************************************)
(* Model of the MCP server configuration utilities of mcp-router:          *)
(*   validateMcpServerJson, processMcpServerConfigs  (mcp-server-utils.ts) *)
(*   isNpxCommand, ensureNpxYesFlag                  (npx helper)          *)
(*                                                                         *)
(* JavaScript strings are TLA+ strings (Len, SubSeq and \o act on them).   *)
(* A JSON value is a record [t, v]: t is the kind, v the payload.  An      *)
(* object's payload is the sequence of its own properties [k, val] in      *)
(* own-property order (the order of Object.keys / Object.entries).         *)
(***************************************************************************)
EXTENDS Integers, Sequences, FiniteSets, TLC

VARIABLES
    jsonInput,            \* argument of validateMcpServerJson
    vres,                 \* what validateMcpServerJson delivered
    serverConfigs,        \* argument of processMcpServerConfigs (a JS object)
    existingServerNames,  \* the caller's Set<string>
    currentNames,         \* the call's working copy of the names
    results,              \* the call's result array
    chosen,               \* uniqueName picked for each entry that reached line 173
    idx,                  \* position of the for..of loop in Object.entries
    call,                 \* which of the two successive calls is running
    prev,                 \* [existing, chosen] as the first call left them
    pc,                   \* position of the caller
    npxCommand,           \* ensureNpxYesFlag: command
    npxArgs,              \* ensureNpxYesFlag: the caller's args array
    npxRet,               \* ensureNpxYesFlag: value returned by the first call
    npxRet2               \* value returned when applied to the first result

vars == <<jsonInput, vres, serverConfigs, existingServerNames, currentNames,
          results, chosen, idx, call, prev, pc,
          npxCommand, npxArgs, npxRet, npxRet2>>

cfgVars == <<jsonInput, vres, serverConfigs, existingServerNames, currentNames,
             results, chosen, idx, call, prev>>
npxVars == <<npxCommand, npxArgs, npxRet, npxRet2>>

----------------------------------------------------------------------------
(* Bounds of the explored inputs.                                          *)

MaxEntries == 2

----------------------------------------------------------------------------
(* JavaScript string primitives.                                           *)

CharAt(s, i) == SubSeq(s, i, i)

WhiteSpace == {" ", "\t", "\n", "\r"}

RECURSIVE TrimStart(_)
TrimStart(s) ==
    IF Len(s) > 0 /\ CharAt(s, 1) \in WhiteSpace
    THEN TrimStart(SubSeq(s, 2, Len(s)))
    ELSE s

RECURSIVE TrimEnd(_)
TrimEnd(s) ==
    IF Len(s) > 0 /\ CharAt(s, Len(s)) \in WhiteSpace
    THEN TrimEnd(SubSeq(s, 1, Len(s) - 1))
    ELSE s

Trim(s) == TrimEnd(TrimStart(s))

UpperCaseLetters == "ABCDEFGHIJKLMNOPQRSTUVWXYZ"
LowerCaseLetters == "abcdefghijklmnopqrstuvwxyz"

LowerChar(c) ==
    IF \E i \in 1..Len(UpperCaseLetters) : CharAt(UpperCaseLetters, i) = c
    THEN CharAt(LowerCaseLetters,
                CHOOSE i \in 1..Len(UpperCaseLetters) : CharAt(UpperCaseLetters, i) = c)
    ELSE c

RECURSIVE ToLowerCase(_)
ToLowerCase(s) ==
    IF Len(s) = 0 THEN s
    ELSE LowerChar(CharAt(s, 1)) \o ToLowerCase(SubSeq(s, 2, Len(s)))

EndsWith(s, suffix) ==
    /\ Len(s) >= Len(suffix)
    /\ SubSeq(s, Len(s) - Len(suffix) + 1, Len(s)) = suffix

StartsWith(s, prefix) ==
    /\ Len(s) >= Len(prefix)
    /\ SubSeq(s, 1, Len(prefix)) = prefix

----------------------------------------------------------------------------
(* The npx helper.  An optional parameter is a sequence of length 0        *)
(* (undefined) or 1 (the value).                                           *)

NPX_COMMAND_NAMES == {"npx", "npx.cmd", "npx.exe"}

isNpxCommand(command) ==
    IF command = <<>> \/ command[1] = "" THEN FALSE
    ELSE LET normalized == ToLowerCase(Trim(command[1])) IN
         IF normalized = "" THEN FALSE
         ELSE IF normalized \in NPX_COMMAND_NAMES THEN TRUE
         ELSE \/ EndsWith(normalized, "/npx")
              \/ EndsWith(normalized, "\\npx")
              \/ EndsWith(normalized, "/npx.cmd")
              \/ EndsWith(normalized, "\\npx.cmd")
              \/ EndsWith(normalized, "/npx.exe")
              \/ EndsWith(normalized, "\\npx.exe")

(* Variant: --yes=<value> is not taken for a yes flag.                     *)
IsYesFlagExact(arg) ==
    LET normalized == ToLowerCase(Trim(arg)) IN
        normalized = "-y" \/ normalized = "--yes"

IsYesFlag(arg) ==
    LET normalized == ToLowerCase(Trim(arg)) IN
        \/ normalized = "-y"
        \/ normalized = "--yes"
        \/ StartsWith(normalized, "--yes=")

hasYesFlag(args) == \E i \in 1..Len(args) : IsYesFlag(args[i])

(* The value returned (ret) and the content of the caller's array after    *)
(* the call (args): the spread at line 48 builds a new array.              *)
ensureNpxYesFlag(command, args) ==
    IF ~isNpxCommand(command) \/ args = <<>> \/ Len(args[1]) = 0
    THEN [ret |-> args, args |-> args]
    ELSE IF hasYesFlag(args[1])
         THEN [ret |-> args, args |-> args]
         ELSE [ret |-> << <<"-y">> \o args[1] >>, args |-> args]

NpxCommands ==
    { <<>>, <<"">>, <<"  ">>, <<"npx">>, <<" NPX ">>, <<"npx.cmd">>, <<"Npx.Exe\n">>,
      <<"/usr/bin/npx">>, <<"C:\\bin\\npx.cmd">>, <<"\\npx.exe">>,
      <<"node">>, <<"xnpx">>, <<"npx.sh">>, <<"/npx/node">>, <<"n px">> }

NpxArgs ==
    { <<>>, << <<>> >>, << <<"pkg">> >>, << <<"-y">> >>, << <<"pkg", " -Y ">> >>,
      << <<"--yes", "pkg">> >>, << <<"pkg", "--YES=true">> >>, << <<"--yesterday">> >>,
      << <<"-yy", "pkg">> >>, << <<"">> >>, << <<"a", "b", "c">> >>, << <<"--y", "-y x">> >> }

----------------------------------------------------------------------------
(* JSON values and the JavaScript operations the code applies to them.     *)

Undefined == [t |-> "undef", v |-> 0]
Null      == [t |-> "null", v |-> 0]
Bool(b)   == [t |-> "bool", v |-> b]
Num(n)    == [t |-> "num", v |-> n]
Str(s)    == [t |-> "str", v |-> s]
Arr(a)    == [t |-> "arr", v |-> a]
Prop(k, val) == [k |-> k, val |-> val]
(* An object literal; a property given as Undefined is left out, as JSON   *)
(* has no undefined.                                                       *)
Obj(props) == [t |-> "obj", v |-> SelectSeq(props, LAMBDA p : p.val.t # "undef")]

TypeOf(x) ==
    CASE x.t = "undef" -> "undefined"
      [] x.t = "bool"  -> "boolean"
      [] x.t = "num"   -> "number"
      [] x.t = "str"   -> "string"
      [] OTHER         -> "object"

Truthy(x) ==
    CASE x.t = "undef" -> FALSE
      [] x.t = "null"  -> FALSE
      [] x.t = "bool"  -> x.v
      [] x.t = "num"   -> x.v # 0
      [] x.t = "str"   -> x.v # ""
      [] OTHER         -> TRUE

IsArray(x) == x.t = "arr"

(* Own enumerable string-keyed properties, in Object.keys order.           *)
OwnEntries(x) ==
    CASE x.t = "obj" -> x.v
      [] x.t = "arr" -> [i \in 1..Len(x.v) |-> Prop(ToString(i - 1), x.v[i])]
      [] x.t = "str" -> [i \in 1..Len(x.v) |-> Prop(ToString(i - 1), Str(CharAt(x.v, i)))]
      [] OTHER       -> <<>>

ObjectKeys(x) == [i \in 1..Len(OwnEntries(x)) |-> OwnEntries(x)[i].k]

(* x.k or x[k] for a property name k that no prototype defines; reading a  *)
(* property of null or undefined throws a TypeError.                       *)
CanRead(x) == x.t \notin {"undef", "null"}

GetProp(x, k) ==
    LET es == OwnEntries(x) IN
        IF \E i \in 1..Len(es) : es[i].k = k
        THEN es[CHOOSE i \in 1..Len(es) : es[i].k = k].val
        ELSE Undefined

(* String(x) on a JSON value.                                              *)
RECURSIVE ToStr(_)
RECURSIVE JoinFrom(_, _)
JoinFrom(a, i) ==
    IF i > Len(a) THEN ""
    ELSE (IF i > 1 THEN "," ELSE "")
         \o (IF a[i].t \in {"undef", "null"} THEN "" ELSE ToStr(a[i]))
         \o JoinFrom(a, i + 1)

ToStr(x) ==
    CASE x.t = "str"   -> x.v
      [] x.t = "num"   -> ToString(x.v)
      [] x.t = "bool"  -> (IF x.v THEN "true" ELSE "false")
      [] x.t = "null"  -> "null"
      [] x.t = "undef" -> "undefined"
      [] x.t = "arr"   -> JoinFrom(x.v, 1)
      [] OTHER         -> "[object Object]"

----------------------------------------------------------------------------
(* validateMcpServerJson.                                                  *)
(* A string argument is [t |-> "text", v |-> [ok, value]]: JSON.parse      *)
(* either throws a SyntaxError (ok = FALSE) or yields value.               *)

Text(ok, value) == [t |-> "text", v |-> [ok |-> ok, value |-> value]]

(* A template literal with its one interpolated value.                     *)
Message(text, arg) == [text |-> text, arg |-> arg]

Thrown(message) == [thrown |-> TRUE, message |-> message, value |-> Undefined]
Value(x)        == [thrown |-> FALSE, message |-> "", value |-> x]

JsonParse(text) ==
    IF text.v.ok THEN Value(text.v.value)
    ELSE Thrown("Unexpected token in JSON")

Pending == [outcome |-> "pending", valid |-> FALSE, error |-> <<>>,
            jsonData |-> <<>>, serverConfigs |-> <<>>]
Invalid(error) == [outcome |-> "return", valid |-> FALSE, error |-> <<error>>,
                   jsonData |-> <<>>, serverConfigs |-> <<>>]
Valid(parsed, mcpServers) == [outcome |-> "return", valid |-> TRUE, error |-> <<>>,
                              jsonData |-> <<parsed>>, serverConfigs |-> <<mcpServers>>]
Escaped(message) == [outcome |-> "throw", valid |-> FALSE, error |-> <<>>,
                     jsonData |-> <<>>, serverConfigs |-> <<>>]

remoteTypes == {"http", "sse", "remote", "remote-streamable",
                "streamable-http", "streamable_http"}

vHasCommand(server) ==
    LET command == GetProp(server, "command") IN
        command.t = "str" /\ Len(Trim(command.v)) > 0

vTypeValue(server) ==
    LET type == GetProp(server, "type") IN
        IF type.t = "str" THEN ToLowerCase(Trim(type.v)) ELSE ""

(* <<>> is undefined.                                                      *)
vUrlValue(server) ==
    LET url == GetProp(server, "url")
        remoteUrl == GetProp(server, "remoteUrl") IN
        IF url.t = "str" /\ Len(Trim(url.v)) > 0 THEN <<url.v>>
        ELSE IF remoteUrl.t = "str" /\ Len(Trim(remoteUrl.v)) > 0 THEN <<remoteUrl.v>>
        ELSE <<>>

(* Variant: the declared type is not consulted.                            *)
isRemoteLikeByUrlOnly(server) == ~vHasCommand(server) /\ vUrlValue(server) # <<>>

isRemoteLike(server) ==
    \/ vTypeValue(server) \in remoteTypes
    \/ (~vHasCommand(server) /\ vUrlValue(server) # <<>>)

(* The body of the loop at lines 36-107 for one entry: <<>> when the entry *)
(* passes, otherwise the error of the return statement taken.              *)
CheckServer(serverName, server) ==
    IF ~Truthy(server) \/ TypeOf(server) # "object" THEN
        <<Message("Invalid server configuration for '${serverName}': Expected an object",
                  serverName)>>
    ELSE IF ~vHasCommand(server) /\ ~isRemoteLike(server) THEN
        <<Message("Missing or invalid command for server '${serverName}'", serverName)>>
    ELSE IF isRemoteLike(server) /\ vUrlValue(server) = <<>> THEN
        <<Message("Missing or invalid url for remote server '${serverName}'", serverName)>>
    ELSE IF GetProp(server, "args").t # "undef" /\ ~IsArray(GetProp(server, "args")) THEN
        <<Message("Arguments must be an array for server '${serverName}'", serverName)>>
    ELSE IF /\ GetProp(server, "alwaysAllow").t # "undef"
            /\ ~IsArray(GetProp(server, "alwaysAllow")) THEN
        <<Message("alwaysAllow must be an array for server '${serverName}'", serverName)>>
    ELSE IF /\ GetProp(server, "neverAllow").t # "undef"
            /\ ~IsArray(GetProp(server, "neverAllow")) THEN
        <<Message("neverAllow must be an array for server '${serverName}'", serverName)>>
    ELSE <<>>

RECURSIVE CheckServers(_, _)

(* Variant: the loop goes on after an offending entry and reports the      *)
(* last one.                                                               *)
CheckServersLast(entries, i) ==
    IF i > Len(entries) THEN <<>>
    ELSE LET rest == CheckServers(entries, i + 1) IN
         IF Len(rest) > 0 THEN rest ELSE CheckServer(entries[i].k, entries[i].val)

CheckServers(entries, i) ==
    IF i > Len(entries) THEN <<>>
    ELSE LET e == CheckServer(entries[i].k, entries[i].val) IN
         IF Len(e) > 0 THEN e ELSE CheckServers(entries, i + 1)

(* Lines 109-113, after the loop has gone through the entries.             *)
ValidateChecked(parsed, mcpServers, e) ==
    IF Len(e) > 0 THEN Value(Invalid(e[1]))
    ELSE Value(Valid(parsed, mcpServers))

(* Lines 25-113.                                                           *)
ValidateServers(parsed, mcpServers) ==
    IF TypeOf(mcpServers) # "object" \/ mcpServers.t = "null" THEN
        Value(Invalid(Message("Invalid JSON format: Expected an object", "")))
    ELSE IF Len(ObjectKeys(mcpServers)) = 0 THEN
        Value(Invalid(Message("No server configurations found", "")))
    ELSE ValidateChecked(parsed, mcpServers, CheckServers(OwnEntries(mcpServers), 1))

(* Line 23, on the outcome p of line 19-20.                                *)
ValidateParsed(p) ==
    IF p.thrown THEN p
    ELSE IF ~CanRead(p.value) THEN Thrown("Cannot read properties of " \o ToStr(p.value))
    ELSE ValidateServers(p.value,
                         IF Truthy(GetProp(p.value, "mcpServers"))
                         THEN GetProp(p.value, "mcpServers") ELSE p.value)

(* The try block, lines 18-113: a result, or the exception it raises.      *)
ValidateTry(input) ==
    ValidateParsed(IF input.t = "text" THEN JsonParse(input) ELSE Value(input))

(* The catch clause, lines 114-119.                                        *)
ValidateCatch(message) == Invalid(Message("Invalid JSON: ${error.message}", message))

(* Variant: no try/catch around the body.                                  *)
ValidateUncaught(r) == IF r.thrown THEN Escaped(r.message) ELSE r.value

(* try { ... } catch, on the outcome r of the try block.                   *)
ValidateCaught(r) == IF r.thrown THEN ValidateCatch(r.message) ELSE r.value

validateMcpServerJson(input) == ValidateCaught(ValidateTry(input))


----------------------------------------------------------------------------
(* processMcpServerConfigs: one iteration of the loop at lines 152-335.    *)

(* A plain JavaScript object ({}) as a function on its own keys.           *)
EmptyObject == [k \in {} |-> 0]

(* Names every plain object inherits from Object.prototype.                *)
ObjectPrototypeKeys ==
    {"constructor", "__proto__", "hasOwnProperty", "isPrototypeOf",
     "propertyIsEnumerable", "toLocaleString", "toString", "valueOf",
     "__defineGetter__", "__defineSetter__", "__lookupGetter__", "__lookupSetter__"}

(* obj[k] = val for a primitive val: the inherited __proto__ setter        *)
(* ignores a value that is neither an object nor null.                     *)
SetProp(obj, k, val) ==
    IF k = "__proto__" THEN obj
    ELSE [x \in DOMAIN obj \cup {k} |-> IF x = k THEN val ELSE obj[x]]

(* k in obj: own or inherited.                                             *)
HasProp(obj, k) == k \in DOMAIN obj \/ k \in ObjectPrototypeKeys

(* Lines 165-170.                                                          *)
RECURSIVE UniqueNameLoop(_, _, _, _)

UniqueNameLoop(serverName, uniqueName, counter, names) ==
    IF uniqueName \in names
    THEN UniqueNameLoop(serverName, serverName \o "-" \o ToString(counter),
                        counter + 1, names)
    ELSE uniqueName

(* Variant: the suffix is tried once instead of in a loop.                 *)
UniqueNameOnce(serverName, names) ==
    IF serverName \in names THEN serverName \o "-" \o ToString(2) ELSE serverName

(* Variant: the counter starts at 1.                                       *)
UniqueNameFromOne(serverName, names) == UniqueNameLoop(serverName, serverName, 1, names)

UniqueName(serverName, names) == UniqueNameLoop(serverName, serverName, 2, names)

NonEmpty(s) == Len(s) > 0

(* Lines 180-184.                                                          *)
ArgsArray(args) ==
    IF IsArray(args)
    THEN SelectSeq([i \in 1..Len(args.v) |-> Trim(ToStr(args.v[i]))], NonEmpty)
    ELSE <<>>

(* Variant: the items are not trimmed.                                     *)
AllowListUntrimmed(list) ==
    IF IsArray(list)
    THEN SelectSeq([i \in 1..Len(list.v) |->
                       IF list.v[i].t = "str" THEN list.v[i].v ELSE ""], NonEmpty)
    ELSE <<>>

(* Lines 233-246, the same code for alwaysAllow and neverAllow.            *)
AllowList(list) ==
    IF IsArray(list)
    THEN SelectSeq([i \in 1..Len(list.v) |->
                       IF list.v[i].t = "str" THEN Trim(list.v[i].v) ELSE ""], NonEmpty)
    ELSE <<>>

(* Lines 185-200.                                                          *)
RECURSIVE EnvReduce(_, _, _)
EnvReduce(entries, i, acc) ==
    IF i > Len(entries) THEN acc
    ELSE LET value == entries[i].val IN
         EnvReduce(entries, i + 1,
                   IF value.t = "str" THEN SetProp(acc, entries[i].k, value.v)
                   ELSE IF value.t \notin {"undef", "null"}
                        THEN SetProp(acc, entries[i].k, ToStr(value))
                        ELSE acc)

EnvObject(env) ==
    IF Truthy(env) /\ TypeOf(env) = "object" /\ ~IsArray(env)
    THEN EnvReduce(OwnEntries(env), 1, EmptyObject)
    ELSE EmptyObject

RawCommand(serverConfig) ==
    LET command == GetProp(serverConfig, "command") IN
        IF command.t = "str" THEN Trim(command.v) ELSE ""

RawType(serverConfig) ==
    LET type == GetProp(serverConfig, "type") IN
        IF type.t = "str" THEN ToLowerCase(Trim(type.v)) ELSE ""

(* Lines 206-213; <<>> is undefined.                                       *)
UrlValue(serverConfig) ==
    LET url == GetProp(serverConfig, "url")
        remoteUrl == GetProp(serverConfig, "remoteUrl") IN
        IF url.t = "str" /\ Len(Trim(url.v)) > 0 THEN <<Trim(url.v)>>
        ELSE IF remoteUrl.t = "str" /\ Len(Trim(remoteUrl.v)) > 0 THEN <<Trim(remoteUrl.v)>>
        ELSE <<>>

(* Lines 215-231.                                                          *)
ServerType(rawType, hasCommand, urlValue) ==
    IF rawType \in {"streamable-http", "streamable_http", "remote-streamable"}
    THEN "remote-streamable"
    ELSE IF rawType \in {"http", "sse", "remote"} THEN "remote"
    ELSE IF ~hasCommand /\ urlValue # <<>> /\ urlValue[1] # "" THEN "remote"
    ELSE "local"

(* Lines 248-256.                                                          *)
RECURSIVE AllowEach(_, _, _)
AllowEach(alwaysAllow, i, perms) ==
    IF i > Len(alwaysAllow) THEN perms
    ELSE AllowEach(alwaysAllow, i + 1, SetProp(perms, alwaysAllow[i], TRUE))

RECURSIVE DenyEach(_, _, _)
DenyEach(neverAllow, i, perms) ==
    IF i > Len(neverAllow) THEN perms
    ELSE DenyEach(neverAllow, i + 1,
                  IF ~HasProp(perms, neverAllow[i])
                  THEN SetProp(perms, neverAllow[i], FALSE)
                  ELSE perms)

ToolPermissions(alwaysAllow, neverAllow) ==
    DenyEach(neverAllow, 1, AllowEach(alwaysAllow, 1, EmptyObject))

(* Lines 258-279; <<>> is undefined.                                       *)
RawAuthorization(serverConfig) ==
    LET bearerToken == GetProp(serverConfig, "bearerToken")
        authorization == GetProp(serverConfig, "authorization")
        headers == GetProp(serverConfig, "headers") IN
        IF bearerToken.t = "str" THEN <<bearerToken.v>>
        ELSE IF authorization.t = "str" THEN <<authorization.v>>
        ELSE IF Truthy(headers) /\ TypeOf(headers) = "object" /\ ~IsArray(headers)
        THEN LET upper == GetProp(headers, "Authorization")
                 headerAuthorization ==
                     IF upper.t \notin {"undef", "null"} THEN upper
                     ELSE GetProp(headers, "authorization") IN
             IF headerAuthorization.t = "str" THEN <<headerAuthorization.v>> ELSE <<>>
        ELSE <<>>

(* replace(/^Bearer\s+/i, "").trim()                                       *)
StripBearer(s) ==
    IF /\ Len(s) > 6
       /\ ToLowerCase(SubSeq(s, 1, 6)) = "bearer"
       /\ CharAt(s, 7) \in WhiteSpace
    THEN Trim(SubSeq(s, 7, Len(s)))
    ELSE Trim(s)

Stripped(raw) == IF raw = <<>> THEN <<>> ELSE <<StripBearer(raw[1])>>

NormalizedBearerToken(serverConfig) == Stripped(RawAuthorization(serverConfig))

Opt(k, present, val) == IF present THEN k :> val ELSE EmptyObject

(* Lines 309-316.                                                          *)
RemoteFields(serverType, urlValue, bearer) ==
    IF serverType \in {"remote", "remote-streamable"}
    THEN Opt("remoteUrl", urlValue # <<>> /\ urlValue[1] # "", urlValue[1])
         @@ Opt("bearerToken", bearer # <<>> /\ bearer[1] # "", bearer[1])
    ELSE EmptyObject

(* Lines 282-320, from the values extracted at lines 176-279.              *)
Assemble(uniqueName, serverConfig, rawCommand, argsArray, serverType, urlValue, toolPermissions, bearer) ==
    [id |-> "uuid",
     name |-> uniqueName,
     env |-> EnvObject(GetProp(serverConfig, "env")),
     autoStart |-> IF GetProp(serverConfig, "autoStart").t = "bool"
                   THEN GetProp(serverConfig, "autoStart").v ELSE FALSE,
     disabled |-> IF GetProp(serverConfig, "disabled").t = "bool"
                  THEN GetProp(serverConfig, "disabled").v ELSE FALSE,
     serverType |-> serverType]
    @@ Opt("description", Truthy(GetProp(serverConfig, "description")),
           GetProp(serverConfig, "description"))
    @@ Opt("command", Len(rawCommand) > 0, rawCommand)
    @@ Opt("args", Len(argsArray) > 0, argsArray)
    @@ RemoteFields(serverType, urlValue, bearer)
    @@ Opt("toolPermissions", Cardinality(DOMAIN toolPermissions) > 0, toolPermissions)

(* Lines 215-320, from the command, type and url extracted before.         *)
Typed(uniqueName, serverConfig, rawCommand, rawType, urlValue) ==
    Assemble(uniqueName, serverConfig, rawCommand,
             ArgsArray(GetProp(serverConfig, "args")),
             ServerType(rawType, Len(rawCommand) > 0, urlValue),
             urlValue,
             ToolPermissions(AllowList(GetProp(serverConfig, "alwaysAllow")),
                             AllowList(GetProp(serverConfig, "neverAllow"))),
             NormalizedBearerToken(serverConfig))

(* Lines 176-320: the MCPServerConfig object.                              *)
McpServerConfig(uniqueName, serverConfig) ==
    Typed(uniqueName, serverConfig, RawCommand(serverConfig), RawType(serverConfig),
          UrlValue(serverConfig))

Failure(serverName, text, arg) ==
    [name |-> serverName, originalName |-> <<>>, success |-> FALSE,
     server |-> <<>>, message |-> <<Message(text, arg)>>]

Success(serverName, uniqueName, server) ==
    [name |-> uniqueName,
     originalName |-> IF serverName # uniqueName THEN <<serverName>> ELSE <<>>,
     success |-> TRUE, server |-> <<server>>, message |-> <<>>]

(* The caller's set after the call has reserved a name in currentNames:    *)
(* line 149 copies the set, so the add at line 173 does not reach it.      *)
(* Variant: currentNames is the caller's set itself.                       *)
CallerSetAliased(existing, uniqueName) == existing \cup {uniqueName}

CallerSetAfterAdd(existing, uniqueName) == existing

(* Lines 173-327 for an object entry, uniqueName being the name picked at *)
(* lines 165-170.  uuidThrows: uuidv4() at line 283 raises; the name is    *)
(* reserved by then.                                                       *)
ProcessObject(serverName, serverConfig, names, uuidThrows, uniqueName) ==
    IF uuidThrows THEN
        [thrown |-> TRUE, message |-> "uuid failed", result |-> <<>>,
         names |-> names \cup {uniqueName}, picked |-> <<uniqueName>>]
    ELSE
        [thrown |-> FALSE, message |-> "",
         result |-> <<Success(serverName, uniqueName,
                              McpServerConfig(uniqueName, serverConfig))>>,
         names |-> names \cup {uniqueName}, picked |-> <<uniqueName>>]

(* The try block for one entry, lines 154-327: the result pushed, the      *)
(* names reserved and the name picked (<<>> when line 165 is not reached), *)
(* or the exception raised.                                                *)
ProcessTry(serverName, serverConfig, names, uuidThrows) ==
    IF ~Truthy(serverConfig) \/ TypeOf(serverConfig) # "object" THEN
        [thrown |-> FALSE, message |-> "",
         result |-> <<Failure(serverName, "Invalid server configuration", "")>>,
         names |-> names, picked |-> <<>>]
    ELSE ProcessObject(serverName, serverConfig, names, uuidThrows,
                       UniqueName(serverName, names))

(* The catch clause, lines 328-334.                                        *)
ProcessCatch(serverName, message) ==
    Failure(serverName, "Error processing server: ${error.message}", message)

(* Variant: the catch clause is missing, so a fault leaves the loop body   *)
(* without a result.                                                       *)
ProcessUncaught(serverName, r) ==
    [result |-> r.result, names |-> r.names, picked |-> r.picked, escaped |-> r.thrown]

(* try { ... } catch, on the outcome r of the try block: escaped tells     *)
(* whether an exception leaves the loop body.                              *)
ProcessCaught(serverName, r) ==
    [result |-> IF r.thrown THEN <<ProcessCatch(serverName, r.message)>> ELSE r.result,
     names |-> r.names, picked |-> r.picked, escaped |-> FALSE]

(* One iteration of the loop.                                              *)
ProcessOne(serverName, serverConfig, names, uuidThrows) ==
    ProcessCaught(serverName, ProcessTry(serverName, serverConfig, names, uuidThrows))

----------------------------------------------------------------------------
(* The caller: validate the input, then two successive calls of            *)
(* processMcpServerConfigs with the same arguments.                        *)

Entries == OwnEntries(serverConfigs)

Validate ==
    /\ pc = "start"
    /\ vres' = validateMcpServerJson(jsonInput)
    /\ pc' = "validated"
    /\ UNCHANGED <<jsonInput, serverConfigs, existingServerNames, currentNames,
                   results, chosen, idx, call, prev>>
    /\ UNCHANGED npxVars

(* Lines 140-149 of the first call.                                        *)
CallProcess ==
    /\ pc = "validated"
    /\ results' = <<>>
    /\ currentNames' = existingServerNames
    /\ chosen' = <<>>
    /\ idx' = 1
    /\ call' = 1
    /\ prev' = [before |-> existingServerNames, chosen |-> <<>>]
    /\ pc' = "loop"
    /\ UNCHANGED <<jsonInput, vres, serverConfigs, existingServerNames>>
    /\ UNCHANGED npxVars

(* The effect of one iteration whose outcome is r.                         *)
Push(r) ==
    /\ results' = results \o r.result
    /\ currentNames' = r.names
    /\ chosen' = Append(chosen, r.picked)
    /\ existingServerNames' =
           IF r.picked = <<>> THEN existingServerNames
           ELSE CallerSetAfterAdd(existingServerNames, r.picked[1])
    /\ pc' = IF r.escaped THEN "threw" ELSE pc

(* One iteration of the loop, lines 152-335.                               *)
ProcessEntry ==
    /\ pc = "loop"
    /\ idx <= Len(Entries)
    /\ \E uuidThrows \in BOOLEAN :
          Push(ProcessOne(Entries[idx].k, Entries[idx].val, currentNames, uuidThrows))
    /\ idx' = idx + 1
    /\ UNCHANGED <<jsonInput, vres, serverConfigs, call, prev>>
    /\ UNCHANGED npxVars

(* Line 337.                                                               *)
ReturnResults ==
    /\ pc = "loop"
    /\ idx > Len(Entries)
    /\ pc' = IF call = 1 THEN "returned" ELSE "done"
    /\ prev' = IF call = 1 THEN [prev EXCEPT !.chosen = chosen] ELSE prev
    /\ UNCHANGED <<jsonInput, vres, serverConfigs, existingServerNames, currentNames,
                   results, chosen, idx, call>>
    /\ UNCHANGED npxVars

(* Lines 140-149 of the second call, same set and same collection.         *)
CallProcessAgain ==
    /\ pc = "returned"
    /\ results' = <<>>
    /\ currentNames' = existingServerNames
    /\ chosen' = <<>>
    /\ idx' = 1
    /\ call' = 2
    /\ pc' = "loop"
    /\ UNCHANGED <<jsonInput, vres, serverConfigs, existingServerNames, prev>>
    /\ UNCHANGED npxVars

Next == Validate \/ CallProcess \/ ProcessEntry \/ ReturnResults \/ CallProcessAgain

(* A caller that calls processMcpServerConfigs once.                       *)
NextOnce == Validate \/ CallProcess \/ ProcessEntry \/ ReturnResults

----------------------------------------------------------------------------
(* The npx helper's caller.                                                *)

EnsureYes ==
    /\ pc = "npx"
    /\ npxRet' = ensureNpxYesFlag(npxCommand, npxArgs).ret
    /\ npxArgs' = ensureNpxYesFlag(npxCommand, npxArgs).args
    /\ pc' = "npx-once"
    /\ UNCHANGED <<npxCommand, npxRet2>>
    /\ UNCHANGED cfgVars

EnsureYesAgain ==
    /\ pc = "npx-once"
    /\ npxRet2' = ensureNpxYesFlag(npxCommand, npxRet).ret
    /\ pc' = "npx-twice"
    /\ UNCHANGED <<npxCommand, npxArgs, npxRet>>
    /\ UNCHANGED cfgVars

NextNpx == EnsureYes \/ EnsureYesAgain

----------------------------------------------------------------------------
(* Inputs.                                                                 *)

(* Objects with at most MaxEntries properties: keys from keys, distinct,   *)
(* values from pool.                                                       *)
Collections(keys, pool) ==
    UNION { { Obj(c) : c \in { d \in [1..n -> { Prop(k, e) : k \in keys, e \in pool }] :
                                   \A i, j \in 1..n : i # j => d[i].k # d[j].k } } :
            n \in 0..MaxEntries }

(* The ways a caller hands a collection to the validator.                  *)
InputForms(c) == { c, Text(TRUE, Obj(<<Prop("mcpServers", c)>>)) }

(* Inputs that are no collection.                                          *)
OtherInputs ==
    { Text(FALSE, Undefined), Text(TRUE, Null), Text(TRUE, Num(5)), Text(TRUE, Str("x")),
      Text(TRUE, Bool(FALSE)), Text(TRUE, Arr(<<>>)), Text(TRUE, Arr(<<Num(1)>>)),
      Null, Undefined, Num(0), Arr(<<Null>>),
      Obj(<<Prop("mcpServers", Str("x"))>>), Obj(<<Prop("mcpServers", Num(7))>>),
      Obj(<<Prop("mcpServers", Arr(<<>>))>>) }

LocalServer  == Obj(<<Prop("command", Str("node")), Prop("args", Arr(<<Str("x")>>))>>)
RemoteServer == Obj(<<Prop("type", Str("sse")), Prop("url", Str("http://x"))>>)
NoCommand    == Obj(<<Prop("args", Arr(<<>>))>>)
NoUrl        == Obj(<<Prop("type", Str("sse"))>>)
BadArgs      == Obj(<<Prop("command", Str("node")), Prop("args", Str("not-an-array"))>>)
BadAlways    == Obj(<<Prop("command", Str("node")), Prop("alwaysAllow", Null)>>)
BadNever     == Obj(<<Prop("command", Str("node")), Prop("neverAllow", Obj(<<>>))>>)

InitCommon ==
    /\ vres = Pending
    /\ currentNames = {}
    /\ results = <<>>
    /\ chosen = <<>>
    /\ idx = 1
    /\ call = 0
    /\ prev = [before |-> existingServerNames, chosen |-> <<>>]

InitNpxIdle ==
    /\ npxCommand = <<>>
    /\ npxArgs = <<>>
    /\ npxRet = <<>>
    /\ npxRet2 = <<>>

(* Batches whose keys collide with each other and with existing names.     *)
Init ==
    /\ pc = "start"
    /\ existingServerNames \in SUBSET {"foo", "foo-2", "bar"}
    /\    /\ serverConfigs \in Collections({"foo", "foo-2", "bar"},
                                           {LocalServer, RemoteServer, Null, Num(3)})
          /\ jsonInput \in {serverConfigs, Obj(<<Prop("mcpServers", serverConfigs)>>)}
    /\ InitCommon
    /\ InitNpxIdle

Spec == Init /\ [][Next]_vars

(* Batches with every kind of offending entry.                             *)
InitValidate ==
    /\ pc = "start"
    /\ existingServerNames = {"foo"}
    /\ \/ /\ serverConfigs \in Collections({"foo", "bar", "baz"},
                                           {LocalServer, RemoteServer, Null, Num(3), NoCommand,
                                            NoUrl, BadArgs, BadAlways, BadNever})
          /\ jsonInput \in InputForms(serverConfigs)
       \/ /\ serverConfigs = Obj(<<Prop("foo", LocalServer)>>)
          /\ jsonInput \in OtherInputs
    /\ InitCommon
    /\ InitNpxIdle

SpecValidate == InitValidate /\ [][NextOnce]_vars

Commands    == { Undefined, Str("node"), Str(" node "), Str("  "), Num(5) }
Types       == { Undefined, Str("sse"), Str(" HTTP "), Str("Streamable-Http"),
                 Str("remote-streamable"), Str("stdio"), Str(""), Num(1) }
Urls        == { Undefined, Str(" http://x "), Str(" "), Num(2) }
RemoteUrls  == { Undefined, Str("http://r"), Str("") }
ArgValues   == { Undefined, Arr(<<Str("x")>>), Str("x") }
ArrayValues == { Arr(<<>>), Arr(<<Str("a")>>), Arr(<<Str(" a "), Str("b")>>),
                 Arr(<<Str("a"), Str("b"), Str("a")>>), Arr(<<Str(""), Str("  ")>>),
                 Arr(<<Num(1), Str("b")>>), Arr(<<Bool(TRUE), Null>>),
                 Arr(<<Str("toString")>>), Arr(<<Str("b"), Str("__proto__")>>),
                 Arr(<<Arr(<<>>), Str("c")>>) }

TransportServers ==
    { Obj(<<Prop("command", c), Prop("type", t), Prop("url", u), Prop("remoteUrl", r),
            Prop("args", a)>>) :
        c \in Commands, t \in Types, u \in Urls, r \in RemoteUrls, a \in ArgValues }

PermissionServers ==
    { Obj(<<Prop("command", Str("node")), Prop("args", a), Prop("alwaysAllow", y),
            Prop("neverAllow", n)>>) :
        a \in {Undefined} \cup ArrayValues,
        y \in {Undefined, Str("a")} \cup ArrayValues,
        n \in {Undefined} \cup ArrayValues }

(* One entry, every combination of its fields.                             *)
InitFields ==
    /\ pc = "start"
    /\ existingServerNames \in {{}, {"foo"}}
    /\ \E server \in TransportServers \cup PermissionServers :
          serverConfigs = Obj(<<Prop("foo", server)>>)
    /\ jsonInput \in { serverConfigs, Obj(<<Prop("mcpServers", serverConfigs)>>) }
    /\ InitCommon
    /\ InitNpxIdle

SpecFields == InitFields /\ [][NextOnce]_vars

InitNpx ==
    /\ pc = "npx"
    /\ npxCommand \in NpxCommands
    /\ npxArgs \in NpxArgs
    /\ npxRet = <<>>
    /\ npxRet2 = <<>>
    /\ jsonInput = Undefined
    /\ serverConfigs = Obj(<<>>)
    /\ existingServerNames = {}
    /\ InitCommon

SpecNpx == InitNpx /\ [][NextNpx]_vars


----------------------------------------------------------------------------
(* Properties.                                                             *)

Processing == call >= 1

Succeeded == { i \in 1..Len(results) : results[i].success }

(* C1: the names of the records produced by one call are pairwise          *)
(* distinct and none is a member of existingServerNames, after every       *)
(* prefix of the entries.                                                  *)
C1_NamesUniqueAndFresh ==
    Processing =>
        /\ \A i \in Succeeded : results[i].name \notin prev.before
        /\ \A i, j \in Succeeded : i # j => results[i].name # results[j].name

(* Keys foo and foo-2 with foo pre-existing: the second record is foo-2-2. *)
C1_Witness ==
    /\ pc = "returned"
    /\ "foo" \in prev.before
    /\ Len(results) = 2
    /\ results[1].success /\ results[1].name = "foo-2"
    /\ results[2].success /\ results[2].name = "foo-2-2"
    /\ results[2].originalName = <<"foo-2">>

(* The used-name set when entry i is reached: the existing names and the   *)
(* names picked for the entries before it.                                 *)
UsedBefore(i) == prev.before \cup { chosen[j][1] : j \in { m \in 1..(i - 1) : chosen[m] # <<>> } }

Suffixed(n, k) == n \o "-" \o ToString(k)

(* The name the claim prescribes for key n against the used names.         *)
PrescribedName(n, used) ==
    IF n \notin used THEN n
    ELSE Suffixed(n, CHOOSE k \in 2..(Cardinality(used) + 2) :
                         /\ Suffixed(n, k) \notin used
                         /\ \A m \in 2..(k - 1) : Suffixed(n, m) \in used)

(* C8: the name chosen for an object entry with key n is n when n is not   *)
(* used, otherwise n-k for the least k >= 2 with n-k unused; it is         *)
(* reserved before the next entry; originalName is n exactly when the      *)
(* chosen name differs from n.                                             *)
C8_SmallestFreeSuffix ==
    Processing =>
        /\ Len(chosen) = idx - 1
        /\ Len(results) = idx - 1
        /\ \A i \in 1..Len(chosen) :
              LET n == Entries[i].k IN
                  /\ (chosen[i] # <<>>) = (TypeOf(Entries[i].val) = "object"
                                            /\ Truthy(Entries[i].val))
                  /\ chosen[i] # <<>> =>
                        /\ chosen[i][1] = PrescribedName(n, UsedBefore(i))
                        /\ chosen[i][1] \in currentNames
                        /\ chosen[i][1] \in UsedBefore(i + 1)
                  /\ results[i].success =>
                        /\ results[i].name = chosen[i][1]
                        /\ results[i].originalName =
                               (IF chosen[i][1] # n THEN <<n>> ELSE <<>>)

(* foo with foo and foo-2 taken becomes foo-3.                             *)
C8_Witness ==
    /\ Processing
    /\ {"foo", "foo-2"} \subseteq prev.before
    /\ \E i \in Succeeded :
          /\ Entries[i].k = "foo"
          /\ results[i].name = "foo-3"
          /\ results[i].originalName = <<"foo">>

(* C9: the caller's existingServerNames keeps exactly its members, and a   *)
(* second call with the same set and collection chooses the same names.    *)
C9_CallerSetUntouched ==
    /\ Processing => existingServerNames = prev.before
    /\ pc = "done" => chosen = prev.chosen

C9_Witness ==
    /\ pc = "done"
    /\ Len(chosen) = 2
    /\ chosen[1] # <<>> /\ chosen[1][1] # Entries[1].k
    /\ chosen[2] # <<>>
    /\ currentNames # existingServerNames


(* What the claim calls an offending entry.                                *)
Present(x) == x.t # "undef"

Offending(server) ==
    \/ ~(TypeOf(server) = "object" /\ server.t # "null")
    \/ (~vHasCommand(server) /\ ~isRemoteLike(server))
    \/ (isRemoteLike(server) /\ vUrlValue(server) = <<>>)
    \/ \E f \in {"args", "alwaysAllow", "neverAllow"} :
          Present(GetProp(server, f)) /\ ~IsArray(GetProp(server, f))

OffendingEntries == { i \in 1..Len(Entries) : Offending(Entries[i].val) }

FirstOffending == CHOOSE i \in OffendingEntries : \A j \in OffendingEntries : i <= j

Validated == pc # "start" /\ jsonInput \in InputForms(serverConfigs)

FailFast ==
    /\ vres.valid = (OffendingEntries = {})
    /\ OffendingEntries # {} =>
          /\ Len(vres.error) = 1
          /\ vres.error[1].arg = Entries[FirstOffending].k

(* C3 as stated: valid exactly when no entry is offending, otherwise the   *)
(* error names the first offending entry in collection order.              *)
C3_AsStated == Validated => FailFast

(* C3: for a collection with at least one entry, valid exactly when no     *)
(* entry is offending, otherwise the error names the first offending       *)
(* entry; a collection with no entry is rejected.                          *)
C3_FailFastNonEmpty ==
    Validated =>
        /\ Len(Entries) > 0 => FailFast
        /\ Len(Entries) = 0 => ~vres.valid /\ Len(vres.error) = 1

(* Two entries offending in different ways: the error is the first one's. *)
C3_Witness ==
    /\ Validated
    /\ Len(Entries) = 2
    /\ OffendingEntries = {1, 2}
    /\ CheckServer(Entries[1].k, Entries[1].val) # CheckServer(Entries[1].k, Entries[2].val)
    /\ ~vres.valid
    /\ vres.error[1].arg = Entries[1].k

(* C4: neither call throws: validateMcpServerJson returns a result object  *)
(* for every input, with valid = FALSE and an error string on failure, and *)
(* processMcpServerConfigs returns a list for every mapping.               *)
C4_NoThrow ==
    /\ pc # "start" =>
          /\ vres.outcome = "return"
          /\ ~vres.valid => Len(vres.error) = 1
          /\ vres.valid => Len(vres.error) = 0 /\ Len(vres.serverConfigs) = 1
    /\ pc # "threw"
    /\ pc = "returned" => Len(results) = Len(Entries)

(* JSON text "null": reading parsed.mcpServers raises inside the try.      *)
C4_Witness ==
    /\ pc = "returned"
    /\ jsonInput = Text(TRUE, Null)
    /\ vres.outcome = "return" /\ ~vres.valid
    /\ vres.error[1].text = "Invalid JSON: ${error.message}"
    /\ Len(results) = 1

(* The key of the entry a result was made from.                            *)
KeyOf(r) == IF r.originalName # <<>> THEN r.originalName[1] ELSE r.name

(* C5: one result per entry, in input order; a failure result does not     *)
(* keep later entries from being processed.                                *)
C5_OneResultPerEntryInOrder ==
    Processing =>
        /\ Len(results) = idx - 1
        /\ idx <= Len(Entries) + 1
        /\ \A i \in 1..Len(results) :
              /\ KeyOf(results[i]) = Entries[i].k
              /\ ~results[i].success => results[i].name = Entries[i].k
              /\ results[i].success =>
                     TypeOf(Entries[i].val) = "object" /\ Truthy(Entries[i].val)
        /\ pc = "returned" => Len(results) = Len(Entries)

(* A non-object entry fails and the entry after it still gets its record. *)
C5_Witness ==
    /\ pc = "returned"
    /\ Len(results) = 2
    /\ ~results[1].success
    /\ results[1].message[1].text = "Invalid server configuration"
    /\ results[2].success
    /\ results[2].name = Entries[2].k


Has(server, field) == field \in DOMAIN server

(* C2: every record produced from a collection the validator accepted has  *)
(* a command when its serverType is local and a remoteUrl when it is       *)
(* remote or remote-streamable.                                            *)
C2_TransportFieldPresent ==
    (Processing /\ vres.valid /\ vres.serverConfigs = <<serverConfigs>>) =>
        \A i \in Succeeded :
            LET server == results[i].server[1] IN
                /\ server.serverType \in {"local", "remote", "remote-streamable"}
                /\ server.serverType = "local" => Has(server, "command")
                /\ server.serverType \in {"remote", "remote-streamable"} =>
                       Has(server, "remoteUrl")

(* A typed remote entry that also has a command, its url taken from        *)
(* remoteUrl.                                                              *)
C2_Witness ==
    /\ pc = "returned"
    /\ vres.valid /\ vres.serverConfigs = <<serverConfigs>>
    /\ \E i \in Succeeded :
          LET server == results[i].server[1] IN
              /\ server.serverType = "remote-streamable"
              /\ Has(server, "command")
              /\ Has(server, "remoteUrl") /\ server.remoteUrl = "http://r"

Range(seq) == { seq[i] : i \in 1..Len(seq) }

AlwaysListed(serverConfig) == Range(AllowList(GetProp(serverConfig, "alwaysAllow")))
NeverListed(serverConfig)  == Range(AllowList(GetProp(serverConfig, "neverAllow")))

(* The toolPermissions of a record; the empty object when not attached.    *)
PermissionsOf(server) ==
    IF Has(server, "toolPermissions") THEN server.toolPermissions ELSE EmptyObject

(* C6: a tool maps to true when alwaysAllow lists it, to false when        *)
(* neverAllow lists it and alwaysAllow does not, and has no key otherwise; *)
(* toolPermissions is attached only with at least one key.                 *)
C6_ToolPermissions ==
    Processing =>
        \A i \in Succeeded :
            LET server == results[i].server[1]
                always == AlwaysListed(Entries[i].val)
                never == NeverListed(Entries[i].val)
                perms == PermissionsOf(server) IN
                /\ DOMAIN perms = always \cup never
                /\ \A tool \in always : perms[tool] = TRUE
                /\ \A tool \in never \ always : perms[tool] = FALSE
                /\ Has(server, "toolPermissions") = (DOMAIN perms # {})

StringElements(list) == Arr(SelectSeq(list.v, LAMBDA item : item.t = "str"))

AllowValues(serverConfig) ==
    { v \in { GetProp(serverConfig, "alwaysAllow"), GetProp(serverConfig, "neverAllow") } :
        IsArray(v) }

Processed == IF Processing THEN 1..(idx - 1) ELSE {}

(* C10 as stated: an array given as alwaysAllow or neverAllow normalizes   *)
(* to what it normalizes to as args.                                       *)
C10_AsStated ==
    \A i \in Processed : \A v \in AllowValues(Entries[i].val) :
        AllowList(v) = ArgsArray(v)

(* C10: alwaysAllow and neverAllow drop every element that is not a        *)
(* string and normalize the string elements as args does (trim, drop       *)
(* empty), so the lists agree when every element is a string.              *)
C10_StringElementsLikeArgs ==
    \A i \in Processed : \A v \in AllowValues(Entries[i].val) :
        /\ AllowList(v) = ArgsArray(StringElements(v))
        /\ (\A k \in 1..Len(v.v) : v.v[k].t = "str") => AllowList(v) = ArgsArray(v)

(* alwaysAllow [" a ", "b"] and neverAllow [1, "b"]: the record allows a   *)
(* and b and has no key for 1.                                             *)
C10_Witness ==
    /\ pc = "returned"
    /\ results[1].success
    /\ GetProp(Entries[1].val, "alwaysAllow") = Arr(<<Str(" a "), Str("b")>>)
    /\ GetProp(Entries[1].val, "neverAllow") = Arr(<<Num(1), Str("b")>>)
    /\ results[1].server[1].toolPermissions = [tool \in {"a", "b"} |-> TRUE]

(* The command is a package runner as the claim words it.                  *)
Recognized(command) ==
    /\ command # <<>>
    /\ LET normalized == ToLowerCase(Trim(command[1])) IN
           \E name \in {"npx", "npx.cmd", "npx.exe"} :
               \/ normalized = name
               \/ EndsWith(normalized, "/" \o name)
               \/ EndsWith(normalized, "\\" \o name)

SaysYes(arg) ==
    LET normalized == ToLowerCase(Trim(arg)) IN
        normalized \in {"-y", "--yes"} \/ StartsWith(normalized, "--yes=")

MustPrepend(command, args) ==
    /\ Recognized(command)
    /\ args # <<>> /\ args[1] # <<>>
    /\ \A i \in 1..Len(args[1]) : ~SaysYes(args[1][i])

(* C7: ensureNpxYesFlag returns -y followed by args exactly when the       *)
(* command is a package runner, args is non-empty and holds no yes flag,   *)
(* and args itself otherwise; a second application changes nothing and     *)
(* the caller's array is never modified.                                   *)
C7_EnsureYes ==
    /\ [](pc \in {"npx-once", "npx-twice"} =>
            npxRet = (IF MustPrepend(npxCommand, npxArgs)
                      THEN << <<"-y">> \o npxArgs[1] >> ELSE npxArgs))
    /\ [](pc = "npx-twice" => npxRet2 = npxRet)
    /\ [][pc = "npx" => npxArgs' = npxArgs]_vars

C7_Witness ==
    /\ pc = "npx-twice"
    /\ npxCommand = <<"C:\\bin\\npx.cmd">>
    /\ npxArgs = << <<"a", "b", "c">> >>
    /\ npxRet = << <<"-y", "a", "b", "c">> >>
    /\ npxRet2 = npxRet


====
